---- MODULE Spec2Model ----
(***************************************************************************)
(* TextExtractorTool: the OCR driver (ocr_tesseract.py) and the text       *)
(* normalizer (text_cleaner.py).                                           *)
(*                                                                         *)
(* A text is a sequence of characters; a character is a one-character      *)
(* string, a non-ASCII character is written by its code point ("U+3002").  *)
(* A page height is an integer number of points.                           *)
(***************************************************************************)
EXTENDS Integers, Sequences, FiniteSets, TLC

VARIABLES
    \* ---- the command line run of ocr_tesseract.py
    pc,             \* the statement the run is at
    args,           \* parsed arguments: path (what it names), directory, clean
    files,          \* the file args.path names, or the listing of the directory
    installed,      \* pytesseract.get_languages()
    fs,             \* files written by the run: path -> content
    exit_code,      \* status passed to sys.exit (-1 while running)
    \* ---- process_directory
    all_files, total, idx, success_count, fail_count,
    \* ---- process_single_file
    file_path,      \* the file being processed
    success, result,
    \* ---- ocr_pdf_with_tesseract
    full_content, page_idx, page_h, y, slice_idx, clip_y1, lang,
    raising,        \* an exception is propagating out of the try block
    \* ---- history: what has happened, read only by the properties
    tiles,          \* the slices of the current document, as recognized
    attempted,      \* the files process_single_file was called with
    remove_failed,  \* os.remove raised in the finally block
    clean_status,   \* how the last auto-clean step ended
    clean_failed,   \* some auto-clean step of the run did not clean its file
    \* ---- direct calls of the text functions
    tpc,            \* position of the caller ("idle" when unused)
    arg,            \* the input text
    ret,            \* the value returned by the first call
    ret2            \* the value returned by the second call

cli_vars == <<pc, args, files, installed, fs, exit_code>>
dir_vars == <<all_files, total, idx, success_count, fail_count>>
file_vars == <<file_path, success, result>>
pdf_vars == <<full_content, page_idx, page_h, y, slice_idx, clip_y1, lang,
              raising>>
hist_vars == <<tiles, attempted, remove_failed, clean_status, clean_failed>>
ocr_vars == <<cli_vars, dir_vars, file_vars, pdf_vars, hist_vars>>
tvars == <<tpc, arg, ret, ret2>>
vars == <<ocr_vars, tvars>>

(***************************************************************************)
(* Characters and character classes                                        *)
(***************************************************************************)

\* U+3000 IDEOGRAPHIC SPACE: matched by \s, by str.strip() and by the
\* range U+3000..U+303F
IDSP == "U+3000"
\* a CJK ideograph (U+4E00..U+9FFF), matched by \w too
CJK == "U+4E2D"

\* str.isspace() / regex \s
WhitespaceChars == {" ", "\t", "\n", "\r", IDSP}

\* regex \w (letters, digits, underscore, ideographs)
WordChars == {"a", "b", "c", "0", "_", CJK}

\* text_cleaner.py punctuation_map, in the dict's insertion order
punctuation_map ==
    << <<",", "U+FF0C">>, <<".", "U+3002">>, <<"!", "U+FF01">>,
       <<"?", "U+FF1F">>, <<":", "U+FF1A">>, <<";", "U+FF1B">>,
       <<"(", "U+FF08">>, <<")", "U+FF09">> >>

HalfWidthPunct == {punctuation_map[i][1] : i \in 1..Len(punctuation_map)}
FullWidthPunct == {punctuation_map[i][2] : i \in 1..Len(punctuation_map)}

\* the character class counted as "normal" by filter_garbled_text:
\* U+4E00..U+9FFF, \w, \s, U+3000..U+303F, U+FF00..U+FFEF and
\* \ / : . , ! ? ; " ' ( ) [ ] { } - + = < >
normal_chars_class ==
    {CJK} \cup WordChars \cup WhitespaceChars \cup FullWidthPunct
    \cup {"\\", "/", ":", ".", ",", "!", "?", ";", "\"", "'",
          "(", ")", "[", "]", "{", "}", "-", "+", "=", "<", ">"}

\* the character class of the run test of filter_garbled_text:
\* ! @ # $ % ^ & * ( ) _ + = { } [ ] | \ : ; " ' < > , ? /
special_chars_class ==
    {"!", "@", "#", "$", "%", "^", "&", "*", "(", ")", "_", "+", "=",
     "{", "}", "[", "]", "|", "\\", ":", ";", "\"", "'", "<", ">", ",",
     "?", "/"}

(***************************************************************************)
(* String helpers (Python str methods)                                     *)
(***************************************************************************)

\* str.lstrip()
RECURSIVE lstrip(_)
lstrip(s) ==
    IF s # <<>> /\ Head(s) \in WhitespaceChars THEN lstrip(Tail(s)) ELSE s

\* str.rstrip()
RECURSIVE rstrip(_)
rstrip(s) ==
    IF s # <<>> /\ s[Len(s)] \in WhitespaceChars
    THEN rstrip(SubSeq(s, 1, Len(s) - 1))
    ELSE s

\* str.strip()
strip(s) == rstrip(lstrip(s))

\* str.split(sep) for a separator that is one of the characters of seps
\* (re.split on a character class): always returns at least one piece
split(s, seps) ==
    LET cuts == {i \in 1..Len(s) : s[i] \in seps}
        starts == {0} \cup cuts
        nth(k) == CHOOSE b \in starts : Cardinality({c \in starts : c < b}) = k - 1
        next(b) == CHOOSE c \in cuts \cup {Len(s) + 1} :
                       c > b /\ \A d \in cuts : d > b => c <= d
    IN  [k \in 1..Cardinality(starts) |-> SubSeq(s, nth(k) + 1, next(nth(k)) - 1)]

\* sep.join(parts)
RECURSIVE join(_, _)
join(sep, parts) ==
    IF parts = <<>> THEN <<>>
    ELSE IF Len(parts) = 1 THEN parts[1]
    ELSE parts[1] \o sep \o join(sep, Tail(parts))

\* str.replace(old, new) for single characters
replace(s, old, new) == [i \in 1..Len(s) |-> IF s[i] = old THEN new ELSE s[i]]

\* c repeated n times
Rep(c, n) == [i \in 1..n |-> c]

(***************************************************************************)
(* filter_garbled_text (ocr_tesseract.py)                                  *)
(***************************************************************************)

\* normal_ratio < 0.4 is decided on integers: normal/total < 4/10. The float
\* quotient of two small integers is the double nearest the exact ratio and
\* 0.4 is the double nearest 2/5, so the two comparisons agree.
RatioNum == 4
RatioDen == 10
\* {10,}: the shortest run of special characters that drops a line
RunMin == 10

\* len(re.findall(<normal class>, line))
RECURSIVE count_normal(_)
count_normal(line) ==
    IF line = <<>> THEN 0
    ELSE (IF Head(line) \in normal_chars_class THEN 1 ELSE 0)
         + count_normal(Tail(line))

\* re.search(<special class>{10,}, line): a left-to-right scan that counts
\* the current run
RECURSIVE run_scan(_, _, _)
run_scan(line, i, run) ==
    IF run >= RunMin THEN TRUE
    ELSE IF i > Len(line) THEN FALSE
    ELSE run_scan(line, i + 1,
                  IF line[i] \in special_chars_class THEN run + 1 ELSE 0)

has_special_run(line) == run_scan(line, 1, 0)

\* mutant of keeps_line: the ratio test is "<=" instead of "<"
keeps_line_at_threshold(line) ==
    IF strip(line) = <<>> THEN TRUE
    ELSE IF Len(line) = 0 THEN TRUE
    ELSE IF count_normal(line) * RatioDen <= RatioNum * Len(line) THEN FALSE
    ELSE IF has_special_run(line) THEN FALSE
    ELSE TRUE

\* the body of the for loop: TRUE when the line is appended to filtered_lines
keeps_line(line) ==
    IF strip(line) = <<>> THEN TRUE
    ELSE IF Len(line) = 0 THEN TRUE
    ELSE IF count_normal(line) * RatioDen < RatioNum * Len(line) THEN FALSE
    ELSE IF has_special_run(line) THEN FALSE
    ELSE TRUE

filter_garbled_text(text) ==
    IF strip(text) = <<>> THEN text
    ELSE join(<<"\n">>, SelectSeq(split(text, {"\n"}), keeps_line))

(***************************************************************************)
(* normalize_text, split_into_sentences, split_into_paragraphs              *)
(* (text_cleaner.py)                                                       *)
(***************************************************************************)

\* mutant of remove_whitespace: only the first whitespace character goes
\* (re.sub with count=1 on single characters)
RECURSIVE remove_whitespace_once(_)
remove_whitespace_once(s) ==
    IF s = <<>> THEN <<>>
    ELSE IF Head(s) \in WhitespaceChars THEN Tail(s)
    ELSE <<Head(s)>> \o remove_whitespace_once(Tail(s))

\* re.sub(r'\s+', '', s)
remove_whitespace(s) == SelectSeq(s, LAMBDA c : c \notin WhitespaceChars)

\* for half, full in punctuation_map.items(): cleaned = cleaned.replace(...)
RECURSIVE map_punctuation(_, _)
map_punctuation(s, k) ==
    IF k > Len(punctuation_map) THEN s
    ELSE map_punctuation(
             replace(s, punctuation_map[k][1], punctuation_map[k][2]), k + 1)

normalize_text(text) == map_punctuation(remove_whitespace(strip(text)), 1)

\* sentence terminators of re.split: U+3002, U+FF01, U+FF1F, U+FF1B
SentenceEnds == {"U+3002", "U+FF01", "U+FF1F", "U+FF1B"}
\* a fragment is kept when len(s.strip()) > 5
MinSentence == 5
\* a sentence joins the buffer while len(buffer) + len(sentence) < 500
ParaBudget == 500
\* default min_length of split_into_paragraphs
MinParagraph == 50

strip_each(parts) == [i \in 1..Len(parts) |-> strip(parts[i])]

split_into_sentences(text) ==
    strip_each(SelectSeq(split(text, SentenceEnds),
                         LAMBDA s : Len(strip(s)) > MinSentence))

\* mutant of emit_paragraph: the buffer is appended whatever its length
emit_paragraph_ungated(paragraphs, current_para, min_length) ==
    Append(paragraphs, current_para)

\* if len(current_para) >= min_length: paragraphs.append(current_para)
emit_paragraph(paragraphs, current_para, min_length) ==
    IF Len(current_para) >= min_length
    THEN Append(paragraphs, current_para)
    ELSE paragraphs

\* the loop of split_into_paragraphs over sentences[i..], with the
\* paragraphs emitted so far and the current buffer
RECURSIVE pack_paragraphs(_, _, _, _, _)
pack_paragraphs(sentences, i, paragraphs, current_para, min_length) ==
    IF i > Len(sentences)
    THEN emit_paragraph(paragraphs, current_para, min_length)
    ELSE IF Len(current_para) + Len(sentences[i]) < ParaBudget
    THEN pack_paragraphs(sentences, i + 1, paragraphs,
                         current_para \o sentences[i] \o <<"U+3002">>,
                         min_length)
    ELSE pack_paragraphs(sentences, i + 1,
                         emit_paragraph(paragraphs, current_para, min_length),
                         sentences[i] \o <<"U+3002">>, min_length)

split_into_paragraphs(text, min_length) ==
    pack_paragraphs(split_into_sentences(text), 1, <<>>, <<>>, min_length)

(***************************************************************************)
(* clean_ocr_text_file (text_cleaner.py)                                   *)
(***************************************************************************)

\* the decimal digits of a natural number
RECURSIVE digits(_)
digits(n) ==
    IF n < 10 THEN <<ToString(n)>>
    ELSE Append(digits(n \div 10), ToString(n % 10))

\* f"{(1 - cleaned / original) * 100:.2f}%" for 0 <= cleaned <= original and
\* original > 0: the ratio in hundredths of a percent, rounded to nearest
compression_ratio(original, cleaned) ==
    LET h == (2 * (original - cleaned) * 10000 + original) \div (2 * original)
    IN  digits(h \div 100) \o <<".">> \o <<ToString((h % 100) \div 10)>>
        \o <<ToString(h % 10)>> \o <<"%">>

\* pathlib: Path.with_suffix, and the default output path
\* input_file.with_stem(stem + "_cleaned").with_suffix('.txt')
with_suffix(path, ext) == [path EXCEPT !.ext = ext]
cleaned_path(path) == [path EXCEPT !.stem = path.stem \o "_cleaned", !.ext = "txt"]

NoPath == [dir |-> "", stem |-> "", ext |-> ""]

exists(fsys, path) == path \in DOMAIN fsys
write_file(fsys, path, content) == (path :> content) @@ fsys
remove_file(fsys, path) == [q \in DOMAIN fsys \ {path} |-> fsys[q]]

\* a text file as written by the OCR stage
text_file(text) == [kind |-> "text", text |-> text]

\* clean_ocr_text_file(input_path, output_path) on the file system fsys;
\* output_path = NoPath stands for None. The outcome is "FileNotFoundError",
\* "ZeroDivisionError", "OSError" (the output cannot be written) or
\* "returned"; fs is the file system it leaves, result the record it returns.
clean_ocr_text_file(fsys, input_path, output_path, write_ok) ==
    IF ~exists(fsys, input_path)
    THEN [outcome |-> "FileNotFoundError", fs |-> fsys, result |-> <<>>]
    ELSE
    LET raw_text == fsys[input_path].text
        normalized_text == normalize_text(raw_text)
        sentences == split_into_sentences(normalized_text)
        paragraphs == split_into_paragraphs(normalized_text, MinParagraph)
    IN  IF Len(raw_text) = 0
        THEN [outcome |-> "ZeroDivisionError", fs |-> fsys, result |-> <<>>]
        ELSE
        LET stats == [original_length |-> Len(raw_text),
                      cleaned_length |-> Len(normalized_text),
                      sentence_count |-> Len(sentences),
                      paragraph_count |-> Len(paragraphs),
                      compression_ratio |->
                          compression_ratio(Len(raw_text), Len(normalized_text))]
            out == IF output_path = NoPath THEN cleaned_path(input_path)
                   ELSE output_path
        IN  IF ~write_ok
            THEN [outcome |-> "OSError", fs |-> fsys, result |-> <<>>]
            ELSE [outcome |-> "returned",
                  fs |-> write_file(fsys, out,
                             [kind |-> "cleaned", stats |-> stats,
                              paragraphs |-> paragraphs]),
                  result |-> [normalized_text |-> normalized_text,
                              sentences |-> sentences,
                              paragraphs |-> paragraphs,
                              stats |-> stats,
                              output_file |-> out]]

(***************************************************************************)
(* Inputs of a run of ocr_tesseract.py                                     *)
(***************************************************************************)

\* most files in a directory listing
MaxFiles == 2
\* most pages of a document with several pages
MaxPages == 2

\* chunk_h, overlap: the slicing parameters of ocr_pdf_with_tesseract
chunk_h == 1500
overlap == 100

\* page heights of the one-page documents: around the multiples of the
\* slice height and of the step chunk_h - overlap
PageHeights == {0, 1, 100, 1400, 1401, 1500, 1501, 2800, 2900, 2901, 3000}
\* page heights of the documents with several pages: one slice, two slices
MultiPageHeights == {1500, 1501}

\* what the engine may return for a slice: a clean line, a line to trim,
\* and a text whose only non-blank line is garbled
TileTexts == { <<"a">>, <<" ", "b", "\n">>, <<"~", "@", "\n", " ">> }

\* what pytesseract.get_languages() may return
LanguageSets == { {"eng"}, {"chi_sim", "eng"} }

SeqsOfLen(S, n) == [1..n -> S]

\* a document is the sequence of its pages' heights
Docs ==
    {<<h>> : h \in PageHeights}
    \cup UNION {SeqsOfLen(MultiPageHeights, n) : n \in 2..MaxPages}
\* the documents of a directory listing: one page, one slice
BatchDocs == {<<1500>>}

File(k, ext, doc) ==
    [path |-> [dir |-> "d", stem |-> "f" \o ToString(k), ext |-> ext],
     doc |-> doc]

\* the k-th file of a listing, for documents drawn from D
FilesAt(k, D) ==
    {File(k, "pdf", d) : d \in D} \cup {File(k, "png", <<>>), File(k, "xyz", <<>>)}

Listings ==
    UNION {{l \in SeqsOfLen(UNION {FilesAt(k, BatchDocs) : k \in 1..MaxFiles}, n) :
               \A k \in 1..n : l[k] \in FilesAt(k, BatchDocs)} :
           n \in 0..MaxFiles}

NoFile == [path |-> NoPath, doc |-> <<>>]
ErrorMessage == <<"error">>

(***************************************************************************)
(* ocr_pdf_with_tesseract                                                  *)
(***************************************************************************)

min(a, b) == IF a <= b THEN a ELSE b

\* pdf_basename, temp_img_path = f"temp_tesseract_{pdf_basename}.png",
\* a path relative to the working directory
temp_img_path(pdf_path) ==
    [dir |-> ".", stem |-> "temp_tesseract_" \o pdf_path.stem, ext |-> "png"]

\* lang = 'chi_sim+eng' if 'chi_sim' in available_langs else 'eng'
select_lang(available_langs) ==
    IF "chi_sim" \in available_langs THEN "chi_sim+eng" ELSE "eng"

\* clip_rect.y1 = min(y + chunk_h, page_h)
clip_lower(y0, h) == min(y0 + chunk_h, h)

\* mutant of append_text: the "if text:" test is missing
append_text_unguarded(content, text) == Append(content, text)

\* if text: full_content.append(text)
append_text(content, text) ==
    IF text # <<>> THEN Append(content, text) ELSE content

\* mutant of on_slice_error: the handler starts the document's text afresh
on_slice_error_discarding(content) == <<>>

\* except Exception as e: (a warning is printed) -- the slice adds nothing
on_slice_error(content) == content

\* mutant of cleanup_scratch: the removal is missing
cleanup_scratch_missing(fsys, path, remove_ok) == fsys

\* the finally block: if os.path.exists(temp_img_path): try os.remove(...)
\* except: pass
cleanup_scratch(fsys, path, remove_ok) ==
    IF exists(fsys, path) /\ remove_ok THEN remove_file(fsys, path) ELSE fsys

\* result = "\n\n".join(full_content)
merge_content(content) == join(<<"\n", "\n">>, content)

\* mutant of advance_window: the step is half of chunk_h - overlap
advance_window_half_step(y0, y1, h) ==
    IF y1 >= h THEN [y |-> y0, next |-> FALSE]
    ELSE [y |-> y0 + (chunk_h - overlap) \div 2,
          next |-> y0 + (chunk_h - overlap) \div 2 < h]

\* mutant of advance_window: the step is chunk_h + overlap
advance_window_too_far(y0, y1, h) ==
    IF y1 >= h THEN [y |-> y0, next |-> FALSE]
    ELSE [y |-> y0 + (chunk_h + overlap), next |-> y0 + (chunk_h + overlap) < h]

\* the position after a slice: "if clip_rect.y1 >= page_h: break", then
\* "y += chunk_h - overlap" and the while test; next is TRUE when another
\* slice of the page follows
advance_window(y0, y1, h) ==
    IF y1 >= h THEN [y |-> y0, next |-> FALSE]
    ELSE [y |-> y0 + (chunk_h - overlap), next |-> y0 + (chunk_h - overlap) < h]

\* if not os.path.exists(pdf_path): return (False, ...); doc = fitz.open(...)
\* which raises on a file it cannot read, outside every try block
ocr_pdf_open ==
    /\ pc = "ocr_pdf"
    /\ \E present \in BOOLEAN, openable \in BOOLEAN :
         IF ~present
         THEN /\ success' = FALSE
              /\ result' = ErrorMessage
              /\ pc' = "after_ocr"
              /\ UNCHANGED <<pdf_vars, tiles>>
         ELSE IF ~openable
         THEN /\ pc' = "raised"
              /\ UNCHANGED <<success, result, pdf_vars, tiles>>
         ELSE /\ full_content' = <<>>
              /\ page_idx' = 0
              /\ raising' = FALSE
              /\ tiles' = <<>>
              /\ pc' = "page"
              /\ UNCHANGED <<success, result, page_h, y, slice_idx, clip_y1, lang>>
    /\ UNCHANGED <<args, files, installed, fs, exit_code, dir_vars, file_path,
                   attempted, remove_failed, clean_status, clean_failed, tvars>>

\* for page_idx, page in enumerate(doc): ... y = 0; slice_idx = 0; while y < page_h
page_begin ==
    /\ pc = "page"
    /\ IF page_idx < Len(file_path.doc)
       THEN /\ page_h' = file_path.doc[page_idx + 1]
            /\ y' = 0
            /\ slice_idx' = 0
            /\ IF 0 < file_path.doc[page_idx + 1]
               THEN pc' = "render" /\ page_idx' = page_idx
               ELSE pc' = "page" /\ page_idx' = page_idx + 1
       ELSE /\ pc' = "finally"
            /\ UNCHANGED <<page_h, y, slice_idx, page_idx>>
    /\ UNCHANGED <<args, files, installed, fs, exit_code, dir_vars, file_vars,
                   full_content, clip_y1, lang, raising, hist_vars, tvars>>

\* slice_idx += 1; clip_rect; pix = page.get_pixmap(...); pix.save(temp_img_path)
\* Either call may raise; a save that raises may leave a partial file.
render_slice ==
    /\ pc = "render"
    /\ slice_idx' = slice_idx + 1
    /\ clip_y1' = clip_lower(y, page_h)
    /\ \/ /\ fs' = write_file(fs, temp_img_path(file_path.path),
                                [kind |-> "bitmap", page |-> page_idx,
                                 y0 |-> y, y1 |-> clip_lower(y, page_h)])
          /\ pc' = "recognize"
          /\ UNCHANGED raising
       \/ /\ raising' = TRUE
          /\ pc' = "finally"
          /\ UNCHANGED fs
       \/ /\ fs' = write_file(fs, temp_img_path(file_path.path),
                                [kind |-> "partial"])
          /\ raising' = TRUE
          /\ pc' = "finally"
    /\ UNCHANGED <<args, files, installed, exit_code, dir_vars, file_vars,
                   full_content, page_idx, page_h, y, lang, hist_vars, tvars>>

\* the window move after a slice, shared by both outcomes of the try block
move_window ==
    LET w == advance_window(y, clip_y1, page_h)
    IN  /\ y' = w.y
        /\ IF w.next
           THEN pc' = "render" /\ page_idx' = page_idx
           ELSE pc' = "page" /\ page_idx' = page_idx + 1

\* the inner try block: get_languages, Image.open(temp_img_path),
\* image_to_string, filter_garbled_text, strip, append; any exception is
\* caught and the loop goes on
recognize_slice ==
    /\ pc = "recognize"
    /\ LET bitmap == fs[temp_img_path(file_path.path)]
       IN  \/ /\ full_content' = on_slice_error(full_content)
              /\ tiles' = Append(tiles, [bitmap |-> bitmap, outcome |-> "failed",
                                         raw |-> <<>>])
              /\ \E queried \in BOOLEAN :
                    lang' = IF queried THEN select_lang(installed) ELSE lang
           \/ \E raw \in TileTexts :
                /\ lang' = select_lang(installed)
                /\ full_content' =
                       append_text(full_content, strip(filter_garbled_text(raw)))
                /\ tiles' = Append(tiles, [bitmap |-> bitmap,
                                           outcome |-> "recognized", raw |-> raw])
    /\ move_window
    /\ UNCHANGED <<args, files, installed, fs, exit_code, dir_vars, file_vars,
                   page_h, slice_idx, clip_y1, raising, attempted,
                   remove_failed, clean_status, clean_failed, tvars>>

\* finally: remove the scratch bitmap if it exists (a failure to remove is
\* ignored), close the document; an exception in flight goes on to the caller
ocr_pdf_finally ==
    /\ pc = "finally"
    /\ \E remove_ok \in BOOLEAN :
         /\ fs' = cleanup_scratch(fs, temp_img_path(file_path.path), remove_ok)
         /\ remove_failed' =
                IF exists(fs, temp_img_path(file_path.path)) /\ ~remove_ok
                THEN remove_failed \cup {temp_img_path(file_path.path)}
                ELSE remove_failed
    /\ pc' = IF raising THEN "raised" ELSE "persist"
    /\ UNCHANGED <<args, files, installed, exit_code, dir_vars, file_vars,
                   pdf_vars, tiles, attempted, clean_status, clean_failed, tvars>>

\* result = "\n\n".join(full_content); write it to output_file;
\* return (True, result), or (False, error_msg) when the write fails
ocr_pdf_persist ==
    /\ pc = "persist"
    /\ \/ /\ fs' = write_file(fs, with_suffix(file_path.path, "txt"),
                                text_file(merge_content(full_content)))
          /\ success' = TRUE
          /\ result' = merge_content(full_content)
       \/ /\ success' = FALSE
          /\ result' = ErrorMessage
          /\ UNCHANGED fs
    /\ pc' = "after_ocr"
    /\ UNCHANGED <<args, files, installed, exit_code, dir_vars, file_path,
                   pdf_vars, hist_vars, tvars>>

(***************************************************************************)
(* ocr_image_with_tesseract                                                *)
(***************************************************************************)

\* the whole function: a missing file and any exception of the try block
\* (open, recognition, write) give (False, error_msg); else the filtered,
\* stripped text is written beside the image and returned
ocr_image ==
    /\ pc = "ocr_image"
    /\ \/ /\ success' = FALSE
          /\ result' = ErrorMessage
          /\ UNCHANGED fs
       \/ \E raw \in TileTexts :
            /\ fs' = write_file(fs, with_suffix(file_path.path, "txt"),
                                text_file(strip(filter_garbled_text(raw))))
            /\ success' = TRUE
            /\ result' = strip(filter_garbled_text(raw))
    /\ pc' = "after_ocr"
    /\ UNCHANGED <<args, files, installed, exit_code, dir_vars, file_path,
                   pdf_vars, hist_vars, tvars>>

(***************************************************************************)
(* process_single_file                                                     *)
(***************************************************************************)

image_extensions == {"png", "jpg", "jpeg", "bmp", "tiff", "tif", "webp"}

\* the locals of ocr_pdf_with_tesseract outside a call of it: the call's
\* result has been taken and its locals, and the history of its slices, are gone
NoPdfRun ==
    /\ full_content' = <<>>
    /\ page_idx' = 0
    /\ page_h' = 0
    /\ y' = 0
    /\ slice_idx' = 0
    /\ clip_y1' = 0
    /\ lang' = "unset"
    /\ raising' = FALSE
    /\ tiles' = <<>>

\* the dispatch on the suffix: '.pdf', an image suffix, or "return False";
\* the call starts with fresh locals
process_single_file ==
    /\ pc = "process_single_file"
    /\ attempted' = Append(attempted, file_path.path)
    /\ clean_status' = "none"
    /\ UNCHANGED <<pdf_vars, tiles>>
    /\ IF file_path.path.ext = "pdf"
       THEN pc' = "ocr_pdf" /\ success' = FALSE /\ result' = <<>>
       ELSE IF file_path.path.ext \in image_extensions
       THEN pc' = "ocr_image" /\ success' = FALSE /\ result' = <<>>
       ELSE /\ pc' = "returned"
            /\ success' = FALSE
            /\ result' = ErrorMessage
    /\ UNCHANGED <<args, files, installed, fs, exit_code, dir_vars, file_path,
                   remove_failed, clean_failed, tvars>>

\* the cleaner as process_single_file runs it:
\* subprocess.run([python, text_cleaner.py, output_file, '-o', output_file],
\* check=True). text_cleaner.py's __main__ catches every exception of
\* clean_ocr_text_file and ends with status 0, so CalledProcessError and
\* FileNotFoundError come from the interpreter or the script being missing.
\* Returns the file system left and how the step ended.
run_cleaner(fsys, output_file, launch, write_ok) ==
    IF launch # "ran" THEN [fs |-> fsys, status |-> launch]
    ELSE LET r == clean_ocr_text_file(fsys, output_file, output_file, write_ok)
         IN  [fs |-> r.fs, status |-> r.outcome]

\* after the OCR call: "if success: ... if auto_clean and output_file: ..."
\* then "return success"; every failure of the cleaning step is only printed
process_single_file_finish ==
    /\ pc = "after_ocr"
    /\ IF success /\ args.clean
       THEN \E launch \in {"ran", "CalledProcessError", "FileNotFoundError"},
               write_ok \in BOOLEAN :
              LET r == run_cleaner(fs, with_suffix(file_path.path, "txt"),
                                   launch, write_ok)
              IN  /\ fs' = r.fs
                  /\ clean_status' = r.status
                  /\ clean_failed' = (clean_failed \/ r.status # "returned")
       ELSE UNCHANGED <<fs, clean_status, clean_failed>>
    /\ pc' = "returned"
    /\ NoPdfRun
    /\ UNCHANGED <<args, files, installed, exit_code, dir_vars, file_vars,
                   attempted, remove_failed, tvars>>

(***************************************************************************)
(* process_directory and main                                              *)
(***************************************************************************)

\* the glob over supported_patterns: "*.pdf" first, then the image patterns
glob(listing) ==
    SelectSeq(listing, LAMBDA f : f.path.ext = "pdf")
    \o SelectSeq(listing, LAMBDA f : f.path.ext \in image_extensions)

\* sys.exit(0 if fail == 0 else 1)
directory_exit_code(fail) == IF fail = 0 THEN 0 ELSE 1
\* sys.exit(0 if success else 1)
single_exit_code(ok) == IF ok THEN 0 ELSE 1

\* main: the dispatch on args.directory, os.path.isfile, os.path.isdir
main ==
    /\ pc = "main"
    /\ IF args.directory
       THEN pc' = "process_directory" /\ UNCHANGED <<exit_code, file_path>>
       ELSE IF args.path = "file"
       THEN /\ pc' = "process_single_file"
            /\ file_path' = files[1]
            /\ UNCHANGED exit_code
       ELSE /\ pc' = "exit"
            /\ exit_code' = 1
            /\ UNCHANGED file_path
    /\ UNCHANGED <<args, files, installed, fs, dir_vars, success, result,
                   pdf_vars, hist_vars, tvars>>

\* process_directory up to the first file: "return (0, 0, 0)" when the path
\* is no directory or holds no supported file, and main exits on the counts
process_directory ==
    /\ pc = "process_directory"
    /\ IF args.path # "dir" \/ glob(files) = <<>>
       THEN /\ success_count' = 0
            /\ fail_count' = 0
            /\ total' = 0
            /\ pc' = "exit"
            /\ exit_code' = directory_exit_code(0)
            /\ UNCHANGED <<all_files, idx, file_path>>
       ELSE /\ all_files' = glob(files)
            /\ total' = Len(glob(files))
            /\ success_count' = 0
            /\ fail_count' = 0
            /\ idx' = 1
            /\ file_path' = glob(files)[1]
            /\ pc' = "process_single_file"
            /\ UNCHANGED exit_code
    /\ UNCHANGED <<args, files, installed, fs, success, result, pdf_vars,
                   hist_vars, tvars>>

\* the rest of the loop body and the loop's end: tally, next file or
\* "return (success_count, fail_count, total)" and main's sys.exit
process_directory_tally ==
    /\ pc = "returned"
    /\ args.directory
    /\ success_count' = IF success THEN success_count + 1 ELSE success_count
    /\ fail_count' = IF success THEN fail_count ELSE fail_count + 1
    /\ IF idx < total
       THEN /\ idx' = idx + 1
            /\ file_path' = all_files[idx + 1]
            /\ pc' = "process_single_file"
            /\ UNCHANGED exit_code
       ELSE /\ pc' = "exit"
            /\ exit_code' = directory_exit_code(fail_count')
            /\ UNCHANGED <<idx, file_path>>
    /\ UNCHANGED <<args, files, installed, fs, all_files, total, success,
                   result, pdf_vars, hist_vars, tvars>>

\* main, single file: sys.exit(0 if success else 1)
main_single_exit ==
    /\ pc = "returned"
    /\ ~args.directory
    /\ pc' = "exit"
    /\ exit_code' = single_exit_code(success)
    /\ UNCHANGED <<args, files, installed, fs, dir_vars, file_vars, pdf_vars,
                   hist_vars, tvars>>

\* main: "except Exception as e: ... sys.exit(1)" for an exception that
\* left ocr_pdf_with_tesseract, process_single_file and process_directory
main_except ==
    /\ pc = "raised"
    /\ pc' = "exit"
    /\ exit_code' = 1
    /\ UNCHANGED <<args, files, installed, fs, dir_vars, file_vars, pdf_vars,
                   hist_vars, tvars>>

(***************************************************************************)
(* The run of the command line                                             *)
(***************************************************************************)

TextIdle ==
    /\ tpc = "idle"
    /\ arg = <<>>
    /\ ret = <<>>
    /\ ret2 = <<>>

\* before any call: no counts, no current file, no locals, no history
NothingRun ==
    /\ exit_code = -1
    /\ all_files = <<>>
    /\ total = 0
    /\ idx = 0
    /\ success_count = 0
    /\ fail_count = 0
    /\ file_path = NoFile
    /\ success = FALSE
    /\ result = <<>>
    /\ full_content = <<>>
    /\ page_idx = 0
    /\ page_h = 0
    /\ y = 0
    /\ slice_idx = 0
    /\ clip_y1 = 0
    /\ lang = "unset"
    /\ raising = FALSE
    /\ tiles = <<>>
    /\ attempted = <<>>
    /\ remove_failed = {}
    /\ clean_status = "none"
    /\ clean_failed = FALSE

Init ==
    /\ pc = "main"
    /\ args \in [path : {"file", "dir", "missing"}, directory : BOOLEAN,
                  clean : BOOLEAN]
    /\ files \in IF args.path = "file" THEN {<<f>> : f \in FilesAt(1, Docs)}
                  ELSE IF args.path = "dir" /\ args.directory THEN Listings
                  ELSE {<<>>}
    /\ installed \in LanguageSets
    /\ fs = <<>>
    /\ NothingRun
    /\ TextIdle

Next ==
    \/ main
    \/ process_directory
    \/ process_single_file
    \/ ocr_pdf_open
    \/ page_begin
    \/ render_slice
    \/ recognize_slice
    \/ ocr_pdf_finally
    \/ ocr_pdf_persist
    \/ ocr_image
    \/ process_single_file_finish
    \/ process_directory_tally
    \/ main_single_exit
    \/ main_except

Spec == Init /\ [][Next]_vars

\* the interpreter runs the program on: a step that can be taken is taken
FairSpec == Spec /\ WF_vars(Next)

(***************************************************************************)
(* Properties of the command line run                                      *)
(***************************************************************************)

\* the run is inside the try block of ocr_pdf_with_tesseract
InSlicing == pc \in {"page", "render", "recognize", "finally"}

\* the scratch bitmaps on disk
ScratchFiles == {p \in DOMAIN fs : p.dir = "." /\ p.ext = "png"}

\* the text a logged slice contributes: filtered and trimmed, none if it failed
TileText(t) ==
    IF t.outcome = "failed" THEN <<>> ELSE strip(filter_garbled_text(t.raw))

\* the non-empty contributions of a log of slices, in the log's order
Contributions(log) ==
    SelectSeq([i \in 1..Len(log) |-> TileText(log[i])], LAMBDA t : t # <<>>)

\* the logged slices of page p (counted from 0)
PageTiles(p) == SelectSeq(tiles, LAMBDA t : t.bitmap.page = p)

\* C1: a failure while processing one file never aborts the batch: when the
\* run of a directory with files ends, every file found was attempted, in
\* order, and success_count + fail_count = total. (Violated: fitz.open and
\* the rendering calls raise outside every handler of the batch.)
C1_BatchNeverAborted ==
    (pc = "exit" /\ args.directory /\ total > 0) =>
        /\ attempted = [k \in 1..total |-> all_files[k].path]
        /\ success_count + fail_count = total

\* C2 as claimed: outside the try block of ocr_pdf_with_tesseract (the
\* function has returned or raised, or has not started) no scratch bitmap
\* exists.
C2_ScratchGoneOnEveryExit == ~InSlicing => ScratchFiles = {}

\* C2 as amended: a scratch bitmap on disk is the one of the document being
\* sliced, or one whose removal failed in the finally block (the failure is
\* ignored and the file stays).
C2_ScratchGoneUnlessRemoveFailed ==
    \A p \in ScratchFiles :
        \/ InSlicing /\ p = temp_img_path(file_path.path)
        \/ p \in remove_failed

\* C2 witness: the function raised after a slice was written and recognized
\* and a later rendering failed, and no scratch bitmap is left.
C2_Witness ==
    /\ pc = "raised"
    /\ Len(tiles) > 0
    /\ raising
    /\ remove_failed = {}
    /\ ScratchFiles = {}

\* C3: a slice whose recognition fails adds no text, the text of the earlier
\* slices is kept and later slices are still recognized: the accumulated
\* text is always the contributions of the logged slices; an exception in
\* flight never comes from a recognized (logged) slice but from a rendering
\* that was not logged; and when the loop is over without a rendering
\* failure every page was sliced down to its lower edge.
C3_TileFailureIsLocal ==
    /\ InSlicing => full_content = Contributions(tiles)
    /\ (InSlicing /\ raising) => slice_idx = Len(PageTiles(page_idx)) + 1
    /\ pc = "persist" =>
          \A p \in 1..Len(file_path.doc) :
              file_path.doc[p] > 0 =>
                  \E i \in 1..Len(tiles) :
                      /\ tiles[i].bitmap.page = p - 1
                      /\ tiles[i].bitmap.y1 = file_path.doc[p]

\* C3 witness: a document returned whose first slice gave text, whose
\* second slice failed and whose third slice gave text again.
C3_Witness ==
    /\ pc = "after_ocr"
    /\ success
    /\ Len(tiles) >= 3
    /\ tiles[1].outcome = "recognized" /\ TileText(tiles[1]) # <<>>
    /\ tiles[2].outcome = "failed"
    /\ tiles[3].outcome = "recognized" /\ TileText(tiles[3]) # <<>>
    /\ result = TileText(tiles[1]) \o <<"\n", "\n">> \o TileText(tiles[3])

\* the clip ranges of the logged slices of page p of height h: they start at
\* 0, follow at steps of chunk_h - overlap, each begins at or before the
\* previous lower edge, each is [y, min(y + chunk_h, h)) inside [0, h], and
\* only the last may reach h
RangesChained(p, h) ==
    LET T == PageTiles(p)
    IN  /\ T # <<>> => T[1].bitmap.y0 = 0
        /\ \A i \in 1..Len(T) :
              /\ 0 <= T[i].bitmap.y0
              /\ T[i].bitmap.y0 < T[i].bitmap.y1
              /\ T[i].bitmap.y1 <= h
              /\ T[i].bitmap.y1 = min(T[i].bitmap.y0 + chunk_h, h)
              /\ i > 1 => /\ T[i].bitmap.y0 = T[i - 1].bitmap.y0 + (chunk_h - overlap)
                          /\ T[i].bitmap.y0 <= T[i - 1].bitmap.y1
              /\ i < Len(T) => T[i].bitmap.y1 < h

\* every point of [0, h) lies in the clip range of a logged slice of page p
\* and the last range ends at h
RangesCover(p, h) ==
    LET T == PageTiles(p)
    IN  /\ T # <<>> /\ T[Len(T)].bitmap.y1 = h
        /\ \A q \in 0..(h - 1) :
              \E i \in 1..Len(T) : T[i].bitmap.y0 <= q /\ q < T[i].bitmap.y1

\* C4: for a page of height H > 0 the clip ranges start at 0, each begins at
\* or before the previous lower edge, all stay inside [0, H], the loop stops
\* at the first range whose lower edge reaches H, and when the page is done
\* their union is exactly [0, H).
C4_SlicesCoverPage ==
    /\ InSlicing =>
          \A p \in 0..(Len(file_path.doc) - 1) :
              RangesChained(p, file_path.doc[p + 1])
    /\ (pc = "page" /\ page_idx > 0 /\ file_path.doc[page_idx] > 0) =>
          RangesCover(page_idx - 1, file_path.doc[page_idx])

\* C4 witness: a page of height 2901 is done, in three slices.
C4_Witness ==
    /\ pc = "page"
    /\ page_idx = 1
    /\ file_path.doc[1] = 2901
    /\ Len(PageTiles(0)) = 3

\* C5: the text returned and written by ocr_pdf_with_tesseract is the
\* non-empty filtered and trimmed slice texts joined by one blank line, in
\* the order page by page and top to bottom; empty and failed slices add
\* neither text nor separator.
C5_ResultIsOrderedJoin ==
    /\ \A i \in 1..Len(tiles), j \in 1..Len(tiles) :
          i < j =>
              \/ tiles[i].bitmap.page < tiles[j].bitmap.page
              \/ /\ tiles[i].bitmap.page = tiles[j].bitmap.page
                 /\ tiles[i].bitmap.y0 < tiles[j].bitmap.y0
    /\ (pc = "after_ocr" /\ success /\ file_path.path.ext = "pdf") =>
          /\ result = join(<<"\n", "\n">>, Contributions(tiles))
          /\ fs[with_suffix(file_path.path, "txt")] = text_file(result)

\* C5 witness: a document of two pages returned "a", blank line, "b", with
\* a slice between or around them that gave no text.
C5_Witness ==
    /\ pc = "after_ocr"
    /\ success
    /\ Len(file_path.doc) = 2
    /\ result = <<"a", "\n", "\n", "b">>
    /\ \E i \in 1..Len(tiles) :
          tiles[i].outcome = "recognized" /\ TileText(tiles[i]) = <<>>
    /\ fs[with_suffix(file_path.path, "txt")] = text_file(result)

\* what the claim counts as a failure of the invocation: a single file that
\* fails, a failed or aborted file of a batch, an auto-clean step that
\* fails, the batch mode on a path that is no directory
InvocationFailed ==
    \/ ~args.directory /\ (args.path # "file" \/ ~success)
    \/ args.directory /\ args.path # "dir"
    \/ args.directory /\ fail_count > 0
    \/ args.directory /\ Len(attempted) > success_count + fail_count
    \/ clean_failed

\* C6: the exit status is 0 only when the whole invocation succeeded and 1
\* whenever a failure occurred. (Violated: process_directory returns
\* (0, 0, 0) for a path that is no directory and main exits 0; a failed
\* cleaning step leaves success True.)
C6_ExitStatusTellsFailure ==
    pc = "exit" => (exit_code = 0 <=> ~InvocationFailed)

\* C7: after a file is processed with auto-clean and the cleaner ran to its
\* end, the '.txt' file beside the input still holds the OCR text and the
\* normalized output is in the '_cleaned.txt' file. (Violated: the driver
\* passes the '.txt' path as the cleaner's output path.)
C7_CleanedBesideOcrText ==
    (pc = "returned" /\ success /\ args.clean /\ clean_status = "returned") =>
        /\ fs[with_suffix(file_path.path, "txt")] = text_file(result)
        /\ exists(fs, cleaned_path(with_suffix(file_path.path, "txt")))
        /\ fs[cleaned_path(with_suffix(file_path.path, "txt"))].kind = "cleaned"

(***************************************************************************)
(* Direct calls of the text functions                                      *)
(***************************************************************************)

\* no command line run is going on
OcrIdle ==
    /\ pc = "idle"
    /\ args = [path |-> "missing", directory |-> FALSE, clean |-> FALSE]
    /\ files = <<>>
    /\ installed = {"eng"}
    /\ NothingRun

\* most lines of a text given to filter_garbled_text
MaxLines == 2
\* longest text given to normalize_text
MaxTextLen == 4

\* a letter, a blank, a character outside both classes, two special
\* characters outside the normal class, one inside it
FilterAlphabet == {"a", " ", "~", "@", "$", "!"}
\* run lengths around the ratio 2/5 and around the run of RunMin
RunLens == {1, 2, 3, RunMin - 1, RunMin}

\* lines of one or two runs
ProbeLines ==
    {Rep(c1, n1) \o Rep(c2, n2) :
        c1 \in FilterAlphabet, n1 \in RunLens \cup {0},
        c2 \in FilterAlphabet, n2 \in RunLens \cup {0}}
\* a blank line, a line that is kept, a line that is dropped
ContextLines == {<<>>, <<"a">>, <<"~">>}

\* texts of up to MaxLines lines, one of them a probe line
FilterInputs ==
    UNION {UNION {{join(<<"\n">>, [i \in 1..n |-> IF i = k THEN probe ELSE ctx[i]]) :
                      probe \in ProbeLines, ctx \in SeqsOfLen(ContextLines, n)} :
                  k \in 1..n} :
           n \in 1..MaxLines}

InitFilter ==
    /\ OcrIdle
    /\ fs = <<>>
    /\ tpc = "filter_garbled_text"
    /\ arg \in FilterInputs
    /\ ret = <<>>
    /\ ret2 = <<>>

\* text = filter_garbled_text(text)
call_filter_garbled_text ==
    /\ tpc = "filter_garbled_text"
    /\ ret' = filter_garbled_text(arg)
    /\ tpc' = "returned"
    /\ UNCHANGED <<ocr_vars, arg, ret2>>

SpecFilter == InitFilter /\ [][call_filter_garbled_text]_vars

\* whitespace, half-width and full-width punctuation, a letter
NormAlphabet ==
    {"a", " ", "\n", IDSP, ",", ".", "?", "(", "U+FF0C", "U+3002"}

NormInputs == UNION {SeqsOfLen(NormAlphabet, n) : n \in 0..MaxTextLen}

InitNormalize ==
    /\ OcrIdle
    /\ fs = <<>>
    /\ tpc = "normalize_text"
    /\ arg \in NormInputs
    /\ ret = <<>>
    /\ ret2 = <<>>

\* y = normalize_text(x)
call_normalize_text ==
    /\ tpc = "normalize_text"
    /\ ret' = normalize_text(arg)
    /\ tpc' = "normalized"
    /\ UNCHANGED <<ocr_vars, arg, ret2>>

\* z = normalize_text(y)
call_normalize_text_again ==
    /\ tpc = "normalized"
    /\ ret2' = normalize_text(ret)
    /\ tpc' = "normalized twice"
    /\ UNCHANGED <<ocr_vars, arg, ret>>

NextNormalize == call_normalize_text \/ call_normalize_text_again

SpecNormalize == InitNormalize /\ [][NextNormalize]_vars

\* raw texts of a letter, blanks and commas, in runs of 0, 1, 40 and 60
CleanInputs ==
    {Rep(c1, n1) \o Rep(c2, n2) :
        c1 \in {"a", " ", ","}, n1 \in {0, 1, 40, 60},
        c2 \in {"a", " ", ","}, n2 \in {0, 1, 40, 60}}

InputTxt == [dir |-> "d", stem |-> "f1", ext |-> "txt"]
OutputTxt == [dir |-> "d", stem |-> "out", ext |-> "txt"]

InitClean ==
    /\ OcrIdle
    /\ tpc = "clean_ocr_text_file"
    /\ arg \in CleanInputs
    /\ fs = (InputTxt :> text_file(arg))
    /\ ret = <<>>
    /\ ret2 = <<>>

\* result = clean_ocr_text_file(input_path, output_path), with and without
\* an output path; ret2 is how the call ended
call_clean_ocr_text_file ==
    /\ tpc = "clean_ocr_text_file"
    /\ \E output_path \in {NoPath, OutputTxt}, write_ok \in BOOLEAN :
         LET r == clean_ocr_text_file(fs, InputTxt, output_path, write_ok)
         IN  /\ fs' = r.fs
             /\ ret' = r.result
             /\ ret2' = r.outcome
    /\ tpc' = "called"
    /\ UNCHANGED <<pc, args, files, installed, exit_code, dir_vars, file_vars,
                   pdf_vars, hist_vars, arg>>

SpecClean == InitClean /\ [][call_clean_ocr_text_file]_vars

\* most sentences of a text given to split_into_paragraphs
MaxSentences == 3

\* sentence lengths around the sentence minimum, the default min_length and
\* the budget of a paragraph
SentenceLens ==
    {MinSentence, MinSentence + 1, MinParagraph - 1, ParaBudget \div 2 - 1,
     ParaBudget - 1, ParaBudget}
\* min_length below, at and above the default, and beyond the budget
MinLengths == {-1, 0, MinParagraph, MinParagraph + 1, ParaBudget + 1}

\* the terminator after the k-th sentence of a text
EndOf(k) == IF k % 2 = 1 THEN "U+3002" ELSE "U+FF1F"

RECURSIVE SentencesText(_, _)
SentencesText(lens, k) ==
    IF k > Len(lens) THEN <<>>
    ELSE Rep("a", lens[k]) \o <<EndOf(k)>> \o SentencesText(lens, k + 1)

\* normalized texts of up to MaxSentences terminated sentences
ParagraphInputs ==
    {SentencesText(lens, 1) :
        lens \in UNION {SeqsOfLen(SentenceLens, n) : n \in 0..MaxSentences}}

InitParagraphs ==
    /\ OcrIdle
    /\ fs = <<>>
    /\ tpc = "split_into_paragraphs"
    /\ arg \in [text : ParagraphInputs, min_length : MinLengths]
    /\ ret = <<>>
    /\ ret2 = <<>>

\* paragraphs = split_into_paragraphs(text, min_length)
call_split_into_paragraphs ==
    /\ tpc = "split_into_paragraphs"
    /\ ret' = split_into_paragraphs(arg.text, arg.min_length)
    /\ tpc' = "split"
    /\ UNCHANGED <<ocr_vars, arg, ret2>>

SpecParagraphs == InitParagraphs /\ [][call_split_into_paragraphs]_vars

(***************************************************************************)
(* Properties of the text functions                                        *)
(***************************************************************************)

\* the value of a ratio string d..d.dd% in hundredths of a percent
DigitOf(ch) == CHOOSE d \in 0..9 : ToString(d) = ch
RECURSIVE NumberOf(_)
NumberOf(ds) ==
    IF ds = <<>> THEN 0
    ELSE 10 * NumberOf(SubSeq(ds, 1, Len(ds) - 1)) + DigitOf(ds[Len(ds)])
Hundredths(str) ==
    100 * NumberOf(SubSeq(str, 1, Len(str) - 4))
    + NumberOf(SubSeq(str, Len(str) - 2, Len(str) - 1))

\* C8: compression_ratio is (1 - cleaned/original) as a percentage with two
\* decimals (100 and 60 give "40.00%"), and for an input file whose text is
\* empty the call still returns a result record and writes its output.
\* (Violated: the ratio divides by len(raw_text) before anything is written.)
C8_RatioAndEmptyInput ==
    tpc = "called" =>
        /\ ret2 = "returned" =>
              LET str == ret.stats.compression_ratio
                  o == ret.stats.original_length
                  c == ret.stats.cleaned_length
              IN  /\ str[Len(str)] = "%" /\ str[Len(str) - 3] = "."
                  /\ 2 * (Hundredths(str) * o - 10000 * (o - c)) <= o
                  /\ 2 * (10000 * (o - c) - Hundredths(str) * o) <= o
                  /\ (o = 100 /\ c = 60) =>
                        str = <<"4", "0", ".", "0", "0", "%">>
        /\ (Len(arg) = 0 /\ ret2 # "OSError") =>
              /\ ret2 = "returned"
              /\ exists(fs, ret.output_file)

\* the noise symbols as the specification lists them
ListedNoiseSymbols ==
    {"!", "@", "#", "%", "^", "&", "*", "(", ")", "_", "+", "=", "{", "}",
     "[", "]", "|", "\\", ":", ";", "\"", "'", "<", ">", ",", "?", "/"}

\* line is non-blank and its fraction of allow-set characters is below
\* RatioNum/RatioDen or it holds RunMin consecutive characters of noise
DropsLine(line, noise) ==
    /\ strip(line) # <<>>
    /\ \/ Cardinality({i \in 1..Len(line) : line[i] \in normal_chars_class})
              * RatioDen < RatioNum * Len(line)
       \/ \E i \in 1..(Len(line) - RunMin + 1) :
              \A j \in i..(i + RunMin - 1) : line[j] \in noise

\* the lines of text that a filter dropping by DropsLine retains, joined
Retained(text, noise) ==
    join(<<"\n">>, SelectSeq(split(text, {"\n"}),
                             LAMBDA line : ~DropsLine(line, noise)))

\* C9 as claimed: the lines retained are those not dropped for the listed
\* noise symbols, in their order.
C9_DropsByListedSymbols ==
    tpc = "returned" => ret = Retained(arg, ListedNoiseSymbols)

\* C9 as amended: the noise symbols are the listed ones and the dollar sign.
C9_DropsByListedSymbolsAndDollar ==
    tpc = "returned" => ret = Retained(arg, ListedNoiseSymbols \cup {"$"})

\* C9 witness: after a retained line, a line of nine exclamation marks and a
\* dollar sign (all of it in a run with the dollar sign, 9 of 10 characters
\* in the allow-set) was dropped.
C9_Witness ==
    /\ tpc = "returned"
    /\ arg = <<"a", "\n">> \o Rep("!", RunMin - 1) \o <<"$">>
    /\ ret = <<"a">>

\* C10: normalize_text is idempotent and its output holds no whitespace
\* and none of the eight half-width punctuation marks.
C10_NormalizeIdempotent ==
    /\ tpc \in {"normalized", "normalized twice"} =>
          \A i \in 1..Len(ret) :
              ret[i] \notin WhitespaceChars /\ ret[i] \notin HalfWidthPunct
    /\ tpc = "normalized twice" => ret2 = ret

\* C10 witness: a text with inner whitespace and half-width punctuation was
\* normalized twice.
C10_Witness ==
    /\ tpc = "normalized twice"
    /\ arg = <<"a", " ", ",", "\n">>
    /\ ret = <<"a", "U+FF0C">>
    /\ ret2 = ret

\* C11: every paragraph split_into_paragraphs returns has length at least
\* min_length, whether the buffer was displaced by a sentence that did not
\* fit or was the remainder at the end of the input.
C11_ParagraphsAtLeastMinLength ==
    tpc = "split" =>
        \A i \in 1..Len(ret) : Len(ret[i]) >= arg.min_length

\* C11 witness: a buffer of 7 characters was displaced by a sentence of 499
\* and dropped, the buffer of 500 was emitted when the next sentence did not
\* fit, and the remainder of 7 characters was dropped.
C11_Witness ==
    /\ tpc = "split"
    /\ arg.min_length = MinParagraph
    /\ arg.text = SentencesText(
           <<MinSentence + 1, ParaBudget - 1, MinSentence + 1>>, 1)
    /\ ret = <<Rep("a", ParaBudget - 1) \o <<"U+3002">> >>

\* C15: every paragraph split_into_paragraphs returns is at most ParaBudget
\* (500) characters long, also for a text with a single sentence longer
\* than the budget.
\* (Violated: a sentence that does not fit starts a new buffer whatever its
\* length.)
C15_ParagraphsWithinBudget ==
    tpc = "split" =>
        \A i \in 1..Len(ret) : Len(ret[i]) <= ParaBudget

\* the run is inside the while loop of one page
InPageLoop == pc \in {"render", "recognize"}

\* the least k with k * b >= a, for a >= 0 and b > 0
CeilDiv(a, b) == (a + b - 1) \div b

\* C12: the slicing loop of a page of height H terminates, and the number
\* of slices it makes of the page is at most ceil(H / (chunk_h - overlap)).
C12_SlicingTerminatesWithinBound ==
    /\ [](slice_idx <= CeilDiv(page_h, chunk_h - overlap))
    /\ InPageLoop ~> ~InPageLoop

\* C12 witness: the loop of a page of height 2901 has ended after three
\* slices, which is ceil(2901 / 1400).
C12_Witness ==
    /\ pc = "page"
    /\ page_h = 2901
    /\ slice_idx = 3
    /\ slice_idx = CeilDiv(page_h, chunk_h - overlap)

(***************************************************************************)
(* Two workers running ocr_pdf_with_tesseract in one working directory     *)
(***************************************************************************)

\* In this specification pc, file_path, success, result, the locals of
\* ocr_pdf_with_tesseract and the log of slices are functions of the worker;
\* the file system and the engine's language packs are shared.
Workers == {1, 2}

\* one page, in one slice or in two
WorkerDocs == {<<1500>>, <<1501>>}

\* the first worker's document, and documents of another name or of the
\* same name in another directory for the second
WorkerPath(dir, stem) == [dir |-> dir, stem |-> stem, ext |-> "pdf"]
WorkerFiles ==
    {f \in [Workers -> [path : {WorkerPath("a", "f1"), WorkerPath("a", "f2"),
                                 WorkerPath("b", "f1")},
                         doc : WorkerDocs]] :
        f[1].path = WorkerPath("a", "f1") /\ f[2].path # f[1].path}

InitWorkers ==
    /\ pc = [w \in Workers |-> "ocr_pdf"]
    /\ file_path \in WorkerFiles
    /\ args = [path |-> "file", directory |-> FALSE, clean |-> FALSE]
    /\ files = <<>>
    /\ installed \in LanguageSets
    /\ fs = <<>>
    /\ exit_code = -1
    /\ all_files = <<>> /\ total = 0 /\ idx = 0
    /\ success_count = 0 /\ fail_count = 0
    /\ success = [w \in Workers |-> FALSE]
    /\ result = [w \in Workers |-> <<>>]
    /\ full_content = [w \in Workers |-> <<>>]
    /\ page_idx = [w \in Workers |-> 0]
    /\ page_h = [w \in Workers |-> 0]
    /\ y = [w \in Workers |-> 0]
    /\ slice_idx = [w \in Workers |-> 0]
    /\ clip_y1 = [w \in Workers |-> 0]
    /\ lang = [w \in Workers |-> "unset"]
    /\ raising = [w \in Workers |-> FALSE]
    /\ tiles = [w \in Workers |-> <<>>]
    /\ attempted = <<>>
    /\ remove_failed = {}
    /\ clean_status = "none"
    /\ clean_failed = FALSE
    /\ TextIdle

\* what no worker's step changes
worker_fixed ==
    <<args, files, exit_code, dir_vars, attempted, clean_status, clean_failed,
      tvars>>

\* lines 144-160 for worker w
worker_open(w) ==
    /\ pc[w] = "ocr_pdf"
    /\ \E present \in BOOLEAN, openable \in BOOLEAN :
         IF ~present
         THEN /\ result' = [result EXCEPT ![w] = ErrorMessage]
              /\ pc' = [pc EXCEPT ![w] = "returned"]
         ELSE IF ~openable
         THEN /\ pc' = [pc EXCEPT ![w] = "raised"]
              /\ UNCHANGED result
         ELSE /\ pc' = [pc EXCEPT ![w] = "page"]
              /\ UNCHANGED result
    /\ UNCHANGED <<worker_fixed, installed, fs, file_path, success, pdf_vars,
                   tiles, remove_failed>>

\* lines 164-185 for worker w
worker_page_begin(w) ==
    /\ pc[w] = "page"
    /\ IF page_idx[w] < Len(file_path[w].doc)
       THEN /\ page_h' = [page_h EXCEPT ![w] = file_path[w].doc[page_idx[w] + 1]]
            /\ y' = [y EXCEPT ![w] = 0]
            /\ slice_idx' = [slice_idx EXCEPT ![w] = 0]
            /\ IF 0 < file_path[w].doc[page_idx[w] + 1]
               THEN pc' = [pc EXCEPT ![w] = "render"] /\ UNCHANGED page_idx
               ELSE /\ page_idx' = [page_idx EXCEPT ![w] = @ + 1]
                    /\ UNCHANGED pc
       ELSE /\ pc' = [pc EXCEPT ![w] = "finally"]
            /\ UNCHANGED <<page_h, y, slice_idx, page_idx>>
    /\ UNCHANGED <<worker_fixed, installed, fs, file_vars, full_content,
                   clip_y1, lang, raising, tiles, remove_failed>>

\* the bitmap worker w saves of its current slice
worker_bitmap(w) ==
    [kind |-> "bitmap", src |-> file_path[w].path, page |-> page_idx[w],
     y0 |-> y[w], y1 |-> clip_lower(y[w], page_h[w])]

\* lines 186-198 for worker w: pix.save writes over whatever is at the path
worker_render_slice(w) ==
    /\ pc[w] = "render"
    /\ slice_idx' = [slice_idx EXCEPT ![w] = @ + 1]
    /\ clip_y1' = [clip_y1 EXCEPT ![w] = clip_lower(y[w], page_h[w])]
    /\ \/ /\ fs' = write_file(fs, temp_img_path(file_path[w].path),
                                worker_bitmap(w))
          /\ pc' = [pc EXCEPT ![w] = "recognize"]
          /\ UNCHANGED raising
       \/ /\ raising' = [raising EXCEPT ![w] = TRUE]
          /\ pc' = [pc EXCEPT ![w] = "finally"]
          /\ UNCHANGED fs
       \/ /\ fs' = write_file(fs, temp_img_path(file_path[w].path),
                                [kind |-> "partial"])
          /\ raising' = [raising EXCEPT ![w] = TRUE]
          /\ pc' = [pc EXCEPT ![w] = "finally"]
    /\ UNCHANGED <<worker_fixed, installed, file_vars, full_content, page_idx,
                   page_h, y, lang, tiles, remove_failed>>

\* lines 252-255 for worker w
worker_move_window(w) ==
    LET m == advance_window(y[w], clip_y1[w], page_h[w])
    IN  /\ y' = [y EXCEPT ![w] = m.y]
        /\ IF m.next
           THEN pc' = [pc EXCEPT ![w] = "render"] /\ UNCHANGED page_idx
           ELSE /\ pc' = [pc EXCEPT ![w] = "page"]
                /\ page_idx' = [page_idx EXCEPT ![w] = @ + 1]

\* one slice in the log of worker w: the bitmap that was at the scratch path
\* (none when the file was gone), how the try block ended, the profile in
\* lang after it and whether get_languages was called
worker_tile(bitmap, outcome, profile, queried) ==
    [bitmap |-> bitmap, outcome |-> outcome, lang |-> profile,
     queried |-> queried]

NoBitmap == [kind |-> "none"]

\* what image_to_string reads off a bitmap: the text of the document it
\* was rendered from, a different letter for each document
worker_text(bitmap) ==
    IF bitmap.src = WorkerPath("a", "f1") THEN <<"a">>
    ELSE IF bitmap.src = WorkerPath("a", "f2") THEN <<"b">>
    ELSE <<"c">>

\* lines 200-250 for worker w: get_languages is called for every slice
\* (line 207 for the first, line 222 for the others), then Image.open reads
\* the file that is at temp_img_path now, which raises when it is gone or
\* is not a whole image
worker_recognize_slice(w) ==
    /\ pc[w] = "recognize"
    /\ LET path == temp_img_path(file_path[w].path)
           bitmap == IF exists(fs, path) THEN fs[path] ELSE NoBitmap
       IN  \/ /\ full_content' = [full_content EXCEPT ![w] = on_slice_error(@)]
              /\ \E queried \in BOOLEAN :
                   /\ bitmap.kind # "bitmap" => queried
                   /\ lang' = [lang EXCEPT ![w] =
                                  IF queried THEN select_lang(installed) ELSE @]
                   /\ tiles' = [tiles EXCEPT ![w] =
                          Append(@, worker_tile(bitmap, "failed",
                                     IF queried THEN select_lang(installed)
                                     ELSE lang[w], queried))]
           \/ /\ bitmap.kind = "bitmap"
              /\ full_content' = [full_content EXCEPT ![w] =
                     append_text(@, strip(filter_garbled_text(worker_text(bitmap))))]
              /\ lang' = [lang EXCEPT ![w] = select_lang(installed)]
              /\ tiles' = [tiles EXCEPT ![w] =
                     Append(@, worker_tile(bitmap, "recognized",
                                           select_lang(installed), TRUE))]
    /\ worker_move_window(w)
    /\ UNCHANGED <<worker_fixed, installed, fs, file_vars, page_h, slice_idx,
                   clip_y1, raising, remove_failed>>

\* lines 260-268 for worker w
worker_finally(w) ==
    /\ pc[w] = "finally"
    /\ \E remove_ok \in BOOLEAN :
         /\ fs' = cleanup_scratch(fs, temp_img_path(file_path[w].path), remove_ok)
         /\ remove_failed' =
                IF exists(fs, temp_img_path(file_path[w].path)) /\ ~remove_ok
                THEN remove_failed \cup {temp_img_path(file_path[w].path)}
                ELSE remove_failed
    /\ pc' = [pc EXCEPT ![w] = IF raising[w] THEN "raised" ELSE "persist"]
    /\ UNCHANGED <<worker_fixed, installed, file_vars, pdf_vars, tiles>>

\* lines 270-282 for worker w
worker_persist(w) ==
    /\ pc[w] = "persist"
    /\ \/ /\ fs' = write_file(fs, with_suffix(file_path[w].path, "txt"),
                                text_file(merge_content(full_content[w])))
          /\ success' = [success EXCEPT ![w] = TRUE]
          /\ result' = [result EXCEPT ![w] = merge_content(full_content[w])]
       \/ /\ result' = [result EXCEPT ![w] = ErrorMessage]
          /\ UNCHANGED <<fs, success>>
    /\ pc' = [pc EXCEPT ![w] = "returned"]
    /\ UNCHANGED <<worker_fixed, installed, file_path, pdf_vars, tiles,
                   remove_failed>>

\* the chi_sim language pack is installed while a document is processed:
\* the next pytesseract.get_languages() returns a longer list
engine_languages_change ==
    /\ \E w \in Workers : pc[w] \in {"render", "recognize"}
    /\ "chi_sim" \notin installed
    /\ installed' = installed \cup {"chi_sim"}
    /\ UNCHANGED <<worker_fixed, pc, fs, file_vars, pdf_vars, tiles,
                   remove_failed>>

NextWorkers ==
    \/ \E w \in Workers :
         \/ worker_open(w)
         \/ worker_page_begin(w)
         \/ worker_render_slice(w)
         \/ worker_recognize_slice(w)
         \/ worker_finally(w)
         \/ worker_persist(w)
    \/ engine_languages_change

SpecWorkers == InitWorkers /\ [][NextWorkers]_vars

(***************************************************************************)
(* Properties of two workers                                               *)
(***************************************************************************)

\* worker w has derived its scratch path and has not left the function
Working(w) == pc[w] \in {"page", "render", "recognize", "finally", "persist"}

\* the slices of its log for which worker w found a bitmap at its path
FoundBitmaps(w) ==
    {i \in 1..Len(tiles[w]) : tiles[w][i].bitmap.kind = "bitmap"}

\* C13: two workers on two different documents use different scratch
\* paths, no worker recognizes a bitmap the other wrote, and no worker's
\* scratch file is removed between its save and its recognition; also for
\* documents of the same base name in different directories.
\* (Violated: the scratch name is made of the base name alone.)
C13_WorkersUseOwnScratch ==
    /\ (\A w \in Workers : Working(w)) =>
          temp_img_path(file_path[1].path) # temp_img_path(file_path[2].path)
    /\ \A w \in Workers : \A i \in FoundBitmaps(w) :
          tiles[w][i].bitmap.src = file_path[w].path
    /\ \A w \in Workers :
          pc[w] = "recognize" => exists(fs, temp_img_path(file_path[w].path))

\* C14: the language profile of a document comes from one query of the
\* engine's installed profiles, and every recognition of the document's
\* slices uses that one profile.
\* (Violated: get_languages is called again for every slice.)
C14_OneLanguageQueryPerDocument ==
    \A w \in Workers :
        /\ Cardinality({i \in 1..Len(tiles[w]) : tiles[w][i].queried}) <= 1
        /\ \A i, j \in 1..Len(tiles[w]) :
              (tiles[w][i].outcome = "recognized"
               /\ tiles[w][j].outcome = "recognized")
              => tiles[w][i].lang = tiles[w][j].lang

====
